---- MODULE Spec2Model ----
(***************************************************************************)
(* scripts/seed_student_responses.py: the ClassPulse seeding script.       *)
(* One run of main(): argument post-processing, session resolution         *)
(* (lookup or create), the paced submission loop, and the final summary.   *)
(* Python strings are TLA+ strings; None is the sentinel string None.      *)
(***************************************************************************)
EXTENDS Integers, Sequences, FiniteSets, TLC

VARIABLES args, pc, base_url, frontend_url, delay, session_id, question,
          admin_url, used_names, i, name, answer, trace, clock, exit_status

vars == <<args, pc, base_url, frontend_url, delay, session_id, question,
          admin_url, used_names, i, name, answer, trace, clock, exit_status>>

None == "<None>"

(* ---------------------------------------------------------------------- *)
(* Fake data                                                              *)
(* ---------------------------------------------------------------------- *)

FIRST_NAMES ==
  << "Alex", "Jordan", "Taylor", "Morgan", "Casey", "Riley", "Avery", "Quinn",
     "Sam", "Jamie", "Drew", "Blake", "Cameron", "Skyler", "Reese", "Parker",
     "Emma", "Liam", "Olivia", "Noah", "Ava", "Ethan", "Sophia", "Mason",
     "Isabella", "William", "Mia", "James", "Charlotte", "Benjamin" >>

LAST_NAMES ==
  << "Smith", "Johnson", "Williams", "Brown", "Jones", "Garcia", "Miller",
     "Davis", "Rodriguez", "Martinez", "Wilson", "Anderson", "Taylor",
     "Thomas", "Moore", "Jackson", "Martin", "Lee", "Thompson", "White" >>

ANSWER_STARTERS ==
  << "I think that",
     "In my opinion,",
     "From what I've learned,",
     "Based on my experience,",
     "I believe",
     "It seems to me that",
     "I would say that",
     "One thing I've noticed is",
     "Personally, I feel",
     "I've found that" >>

\* Entry 8 has U+2014 (em dash) in the source; it is written "-" here, one
\* character for one character.
ANSWER_BODIES ==
  << "the key is to consider multiple perspectives and stay open-minded.",
     "we need to balance theory with practical application.",
     "collaboration and communication are essential for success.",
     "it helps to break things down into smaller, manageable steps.",
     "understanding the fundamentals makes everything else easier.",
     "there's often more than one right approach to a problem.",
     "feedback and iteration lead to better outcomes.",
     "context matters a lot-what works in one situation may not in another.",
     "we should question assumptions and look for evidence.",
     "connecting ideas across different areas can lead to new insights.",
     "practice and repetition build confidence over time.",
     "asking questions is just as important as having answers.",
     "diversity of thought strengthens the overall result.",
     "we need to be mindful of unintended consequences.",
     "simplicity often beats complexity when possible." >>

ANSWER_CLOSERS ==
  << "That's my take on it.",
     "Would love to hear others' thoughts.",
     "Curious what the rest of the class thinks.",
     "Hope this adds to the discussion.",
     "",
     "",
     "" >>

refs == << "Regarding this, ", "On this topic, ", "For this question, " >>

(* ---------------------------------------------------------------------- *)
(* String helpers (Python str methods used by the script)                 *)
(* ---------------------------------------------------------------------- *)

Min(a, b) == IF a <= b THEN a ELSE b

\* s[k-1] of Python, as a one-character string (k is 1-based).
CharAt(s, k) == SubSeq(s, k, k)

\* s[:n]
Prefix(s, n) == SubSeq(s, 1, Min(n, Len(s)))

\* s[n:]
Suffix(s, n) == SubSeq(s, n + 1, Len(s))

\* Python truthiness of an optional string: None and "" are falsy.
Truthy(s) == s # None /\ s # ""

UpperCase == "ABCDEFGHIJKLMNOPQRSTUVWXYZ"
LowerCase == "abcdefghijklmnopqrstuvwxyz"

\* str.lower() of a one-character string.
Lower(c) ==
  IF \E k \in 1..Len(UpperCase) : CharAt(UpperCase, k) = c
  THEN CharAt(LowerCase, CHOOSE k \in 1..Len(UpperCase) : CharAt(UpperCase, k) = c)
  ELSE c

IsSpace(c) == c \in {" ", "\t", "\n", "\r"}

RECURSIVE LStrip(_)
LStrip(s) ==
  IF Len(s) > 0 /\ IsSpace(CharAt(s, 1)) THEN LStrip(Suffix(s, 1)) ELSE s

RECURSIVE RStripSpace(_)
RStripSpace(s) ==
  IF Len(s) > 0 /\ IsSpace(CharAt(s, Len(s)))
  THEN RStripSpace(Prefix(s, Len(s) - 1)) ELSE s

\* str.strip()
Strip(s) == RStripSpace(LStrip(s))

\* str.rstrip("/")
RECURSIVE RStripSlash(_)
RStripSlash(s) ==
  IF Len(s) > 0 /\ CharAt(s, Len(s)) = "/"
  THEN RStripSlash(Prefix(s, Len(s) - 1)) ELSE s

\* " ".join(p for p in parts if p)
RECURSIVE JoinNonEmpty(_)
JoinNonEmpty(parts) ==
  IF parts = <<>> THEN ""
  ELSE LET rest == JoinNonEmpty(Tail(parts)) IN
       IF Head(parts) = "" THEN rest
       ELSE IF rest = "" THEN Head(parts)
       ELSE Head(parts) \o " " \o rest

\* needle in hay
Contains(hay, needle) ==
  \E k \in 0..(Len(hay) - Len(needle)) : SubSeq(hay, k + 1, k + Len(needle)) = needle

StartsWith(s, p) == Len(p) <= Len(s) /\ Prefix(s, Len(p)) = p

(* ---------------------------------------------------------------------- *)
(* random_student_name, random_answer                                     *)
(* ---------------------------------------------------------------------- *)

\* f"{first} {last}" for the drawn pair.
random_student_name(f, l) == FIRST_NAMES[f] \o " " \o LAST_NAMES[l]

\* random.random() < 0.3, the draw u in hundredths.
PrefixChance(u) == u < 30

\* The composed text before the optional prefix: the three drawn parts, the
\* non-empty ones joined by one space, stripped.
Compose(s, b, c) ==
  Strip(JoinNonEmpty(<<ANSWER_STARTERS[s], ANSWER_BODIES[b], ANSWER_CLOSERS[c]>>))

RECURSIVE LowerAll(_)
LowerAll(a) == IF a = "" THEN "" ELSE Lower(CharAt(a, 1)) \o LowerAll(Suffix(a, 1))

\* Variant: answer.lower(), the whole text lower-cased.
LowerFirst_WholeString(a) == LowerAll(a)

\* answer[0].lower() + answer[1:]
LowerFirst(a) == Lower(CharAt(a, 1)) \o Suffix(a, 1)

\* Variant: the prefix branch taken without testing the question.
random_answer_IgnoresQuestion(q, s, b, c, u, r) ==
  IF PrefixChance(u) THEN refs[r] \o LowerFirst(Compose(s, b, c)) ELSE Compose(s, b, c)

\* random_answer(question) with the draws made explicit: starter s, body b,
\* closer c, u = random.random() in hundredths, r = the referential prefix.
random_answer(q, s, b, c, u, r) ==
  LET composed == Compose(s, b, c) IN
  IF q # "" /\ PrefixChance(u) THEN refs[r] \o LowerFirst(composed) ELSE composed

(* ---------------------------------------------------------------------- *)
(* Inputs: the parsed arguments and what the backend may answer           *)
(* ---------------------------------------------------------------------- *)

MaxCount == 3

BaseUrls == {"http://api/"}
FrontendUrls == {None, "/", "http://web//"}
SessionIds == {None, "abc12345"}
Questions == {"", "Takeaway?"}
Counts == -1..MaxCount
Delays == {-1, 0, 2}

\* The names the draws of one run range over: a sub-pool of the two lists.
FirstDraws == {1, 2}
LastDraws == {1}
Capacity == Cardinality(FirstDraws) * Cardinality(LastDraws)

\* The fragments the draws of one run range over (main loop).
StarterDraws == {1}
BodyDraws == {1}
CloserDraws == {Len(ANSWER_CLOSERS)}
RefDraws == {1}
URands == {0, 30}

\* Time a submit call may take, in the unit of delay.
Latencies == {0, 1}

\* Variant: only 5xx counts as an error status.
IsSuccess_ClientErrorsPass(status) == status \in 200..499

IsSuccess(status) == status \in 200..299

EmptyJson == [k \in {} |-> ""]

Transport == [kind |-> "transport"]
Response(status, json, data) ==
  [kind |-> "response", status |-> status, json |-> json, data |-> data]

LookupResults ==
  { Response(200, TRUE, [question |-> "Stored?"]),
    Response(200, TRUE, [question |-> ""]),
    Response(200, TRUE, EmptyJson),
    Response(200, FALSE, EmptyJson),
    Response(404, TRUE, EmptyJson),
    Response(500, TRUE, EmptyJson),
    Transport }

Created == [session_id |-> "new1", student_url |-> "http://web/session/new1",
            admin_url |-> "http://web/session/new1/admin?token=srv"]

CreateResults ==
  { Response(200, TRUE, Created @@ [admin_token |-> "tok"]),
    Response(200, TRUE, Created @@ [admin_token |-> ""]),
    Response(200, TRUE, Created),
    Response(200, FALSE, EmptyJson),
    Response(500, TRUE, EmptyJson),
    Transport }

SubmitResults ==
  { Response(201, TRUE, EmptyJson),
    Response(204, FALSE, EmptyJson),
    Response(500, TRUE, EmptyJson),
    Transport }

(* ---------------------------------------------------------------------- *)
(* Exceptions                                                             *)
(* ---------------------------------------------------------------------- *)

NoExc == ""

\* Variant: resp.raise_for_status() left out.
CallRaises_NoStatusCheck(r) ==
  IF r.kind = "transport" THEN "TransportError"
  ELSE IF ~r.json THEN "JSONDecodeError"
  ELSE NoExc

\* httpx.get / httpx.post followed by resp.raise_for_status() and resp.json():
\* the exception the sequence raises for result r, NoExc when it returns.
CallRaises(r) ==
  IF r.kind = "transport" THEN "TransportError"
  ELSE IF ~IsSuccess(r.status) THEN "HTTPStatusError"
  ELSE IF ~r.json THEN "JSONDecodeError"
  ELSE NoExc

\* The exceptions that derive from BaseException and not from Exception.
NonExceptions == {"KeyboardInterrupt", "SystemExit"}

\* An except clause catches the exception it names; "Exception" catches
\* every exception but those of NonExceptions; "BaseException" catches all.
Catches(clause, exc) ==
  \/ clause = exc
  \/ clause = "Exception" /\ exc \notin NonExceptions
  \/ clause = "BaseException"

Handled(clauses, exc) == \E k \in 1..Len(clauses) : Catches(clauses[k], exc)

\* The clause that handles exc: the first one that catches it.
Handler(clauses, exc) ==
  clauses[CHOOSE k \in 1..Len(clauses) :
            /\ Catches(clauses[k], exc)
            /\ \A j \in 1..(k - 1) : ~Catches(clauses[j], exc)]

\* Variant: the loop's try block without its catch-all clause.
SubmitExcept_HttpOnly == <<"HTTPStatusError">>

\* Variant: the catch-all clause of line 227 written "except BaseException".
SubmitExcept_BaseException == <<"HTTPStatusError", "BaseException">>

LookupExcept == <<"HTTPStatusError">>
SubmitExcept == <<"HTTPStatusError", "Exception">>

Out(line) == [ev |-> "print"] @@ line
Traceback(exc) == [ev |-> "traceback", exc |-> exc]

(* ---------------------------------------------------------------------- *)
(* main                                                                   *)
(* ---------------------------------------------------------------------- *)

Init ==
  /\ args \in [base_url : BaseUrls, frontend_url : FrontendUrls,
               session_id : SessionIds, question : Questions,
               count : Counts, delay : Delays, no_delay : BOOLEAN]
  /\ pc = "start"
  /\ base_url = None
  /\ frontend_url = None
  /\ delay = 0
  /\ session_id = None
  /\ question = None
  /\ admin_url = None
  /\ used_names = {}
  /\ i = 0
  /\ name = None
  /\ answer = None
  /\ trace = <<>>
  /\ clock = 0
  /\ exit_status = None

\* Variant: delay = args.delay, the flag ignored.
EffectiveDelay_IgnoresNoDelay(no_delay, d) == d

\* delay = 0 if args.no_delay else args.delay
EffectiveDelay(no_delay, d) == IF no_delay THEN 0 ELSE d

\* Variant: args.frontend_url or base_url, not stripped.
FrontendUrl_NoStrip(configured, base) == IF Truthy(configured) THEN configured ELSE base

\* (args.frontend_url or base_url).rstrip("/")
FrontendUrl(configured, base) ==
  RStripSlash(IF Truthy(configured) THEN configured ELSE base)

\* Lines 186-191.
Start ==
  /\ pc = "start"
  /\ base_url' = RStripSlash(args.base_url)
  /\ frontend_url' = FrontendUrl(args.frontend_url, RStripSlash(args.base_url))
  /\ delay' = EffectiveDelay(args.no_delay, args.delay)
  /\ admin_url' = None
  /\ pc' = "resolve"
  /\ UNCHANGED <<args, session_id, question, used_names, i, name, answer,
                 trace, clock, exit_status>>

\* The uncaught exception ends the process: traceback, exit status 1.
Crash(events, exc) ==
  /\ trace' = trace \o events \o <<Traceback(exc)>>
  /\ pc' = "crashed"
  /\ exit_status' = "1"

\* Line 212-213: the loop is entered.
EnterLoop(events) ==
  /\ trace' = trace \o events \o <<Out([tag |-> "submitting", total |-> args.count])>>
  /\ used_names' = {}
  /\ pc' = "for"

\* Variant: the reuse path keeps the configured question.
GetQuestion_Configured(data) == args.question

\* resp.json().get("question", "")
GetQuestion(data) == IF "question" \in DOMAIN data THEN data.question ELSE ""

\* question[:60] + ("..." if len(question) > 60 else "")
QuestionPreview(q) == Prefix(q, 60) \o (IF Len(q) > 60 THEN "..." ELSE "")

\* Lines 192-203: the reuse path.
Lookup(r) ==
  /\ pc = "resolve"
  /\ Truthy(args.session_id)
  /\ session_id' = args.session_id
  /\ LET call == [ev |-> "http", op |-> "lookup",
                  url |-> base_url \o "/api/sessions/" \o args.session_id,
                  result |-> r]
         exc == CallRaises(r)
     IN IF exc = NoExc
        THEN /\ question' = GetQuestion(r.data)
             /\ EnterLoop(<<call,
                            Out([tag |-> "using", session_id |-> args.session_id]),
                            Out([tag |-> "question",
                                   text |-> QuestionPreview(GetQuestion(r.data))])>>)
             /\ UNCHANGED exit_status
        ELSE IF Handled(LookupExcept, exc)
        THEN /\ trace' = trace \o <<call, Out([tag |-> "notfound",
                                                 session_id |-> args.session_id,
                                                 status |-> r.status])>>
             /\ pc' = "exit"
             /\ exit_status' = "1"
             /\ UNCHANGED <<question, used_names>>
        ELSE /\ Crash(<<call>>, exc)
             /\ UNCHANGED <<question, used_names>>
  /\ UNCHANGED <<args, base_url, frontend_url, delay, admin_url, i, name,
                 answer, clock>>

\* f"{frontend_url}/session/{session_id}/admin?token={admin_token}"
AdminLink(frontend, sid, token) ==
  frontend \o "/session/" \o sid \o "/admin?token=" \o token

\* Line 127 of create_session: the exception the admin_link expression raises.
CreatedLinkRaises(frontend, data) ==
  IF frontend # ""
  THEN (IF "admin_token" \in DOMAIN data THEN NoExc ELSE "KeyError")
  ELSE (IF "admin_url" \in DOMAIN data THEN NoExc ELSE "KeyError")

\* Line 127 of create_session: admin_link.
CreatedLink(frontend, data) ==
  IF frontend # "" THEN AdminLink(frontend, data.session_id, data.admin_token)
  ELSE data.admin_url

\* data.get("admin_token", "")
GetAdminToken(data) == IF "admin_token" \in DOMAIN data THEN data.admin_token ELSE ""

\* Line 208: admin_url.
AdminUrl(frontend, sid, token) ==
  IF token # "" THEN AdminLink(frontend, sid, token) ELSE None

\* Lines 125-126 of create_session: data['session_id'], data['student_url'].
CreatedRaises(data, key) == IF key \in DOMAIN data THEN NoExc ELSE "KeyError"

\* Lines 204-209 with create_session (116-129): the create path.
Create(r) ==
  /\ pc = "resolve"
  /\ ~Truthy(args.session_id)
  /\ LET call == [ev |-> "http", op |-> "create",
                  url |-> base_url \o "/api/sessions",
                  question |-> args.question, result |-> r]
         exc == CallRaises(r)
     IN IF exc # NoExc
        THEN /\ Crash(<<call>>, exc)
             /\ UNCHANGED <<session_id, question, admin_url, used_names>>
        ELSE IF CreatedRaises(r.data, "session_id") # NoExc
        THEN /\ Crash(<<call>>, CreatedRaises(r.data, "session_id"))
             /\ UNCHANGED <<session_id, question, admin_url, used_names>>
        ELSE IF CreatedRaises(r.data, "student_url") # NoExc
        THEN /\ Crash(<<call, Out([tag |-> "created", session_id |-> r.data.session_id])>>,
                      CreatedRaises(r.data, "student_url"))
             /\ UNCHANGED <<session_id, question, admin_url, used_names>>
        ELSE LET data == r.data
                 head == <<call,
                           Out([tag |-> "created", session_id |-> data.session_id]),
                           Out([tag |-> "student_url", link |-> data.student_url])>>
             IN IF CreatedLinkRaises(frontend_url, data) # NoExc
                THEN /\ Crash(head, CreatedLinkRaises(frontend_url, data))
                     /\ UNCHANGED <<session_id, question, admin_url, used_names>>
                ELSE /\ session_id' = data.session_id
                     /\ admin_url' = AdminUrl(frontend_url, data.session_id,
                                              GetAdminToken(data))
                     /\ question' = args.question
                     /\ EnterLoop(head \o
                          <<Out([tag |-> "admin_url",
                                   link |-> CreatedLink(frontend_url, data)])>>)
                     /\ UNCHANGED exit_status
  /\ UNCHANGED <<args, base_url, frontend_url, delay, i, name, answer, clock>>

\* Variant: the drawn name is never compared with the used ones.
NameTaken_Never(nm, used) == nm \in {}

\* Line 217: name in used_names.
NameTaken(nm, used) == nm \in used

\* Lines 215-216: the loop takes its next index and draws a name.
ForBody(f, l) ==
  /\ pc = "for"
  /\ i < args.count
  /\ name' = random_student_name(f, l)
  /\ pc' = "while"
  /\ UNCHANGED <<args, base_url, frontend_url, delay, session_id, question,
                 admin_url, used_names, i, answer, trace, clock, exit_status>>

\* Line 215: range(args.count) is exhausted.
ForExit ==
  /\ pc = "for"
  /\ ~(i < args.count)
  /\ pc' = "summary"
  /\ UNCHANGED <<args, base_url, frontend_url, delay, session_id, question,
                 admin_url, used_names, i, name, answer, trace, clock, exit_status>>

\* Lines 217-218: the drawn name was used before, draw again.
Redraw(f, l) ==
  /\ pc = "while"
  /\ NameTaken(name, used_names)
  /\ name' = random_student_name(f, l)
  /\ UNCHANGED <<args, pc, base_url, frontend_url, delay, session_id, question,
                 admin_url, used_names, i, answer, trace, clock, exit_status>>

\* Lines 217, 219-221: the name is new; record it and synthesize the answer.
Accept(s, b, c, u, r) ==
  /\ pc = "while"
  /\ ~NameTaken(name, used_names)
  /\ used_names' = used_names \cup {name}
  /\ answer' = random_answer(question, s, b, c, u, r)
  /\ trace' = Append(trace, [ev |-> "synth", idx |-> i + 1, question |-> question])
  /\ pc' = "submit"
  /\ UNCHANGED <<args, base_url, frontend_url, delay, session_id, question,
                 admin_url, i, name, clock, exit_status>>

\* answer[:50] followed by the literal "..."
AnswerPreview(a) == Prefix(a, 50) \o "..."

\* Variant: a single catch-all clause, every failure printed as ERROR.
OutcomeLine_CatchAllOnly(idx, total, nm, ans, r) ==
  IF CallRaises(r) = NoExc
  THEN Out([tag |-> "ok", idx |-> idx, total |-> total, name |-> nm,
            preview |-> AnswerPreview(ans)])
  ELSE Out([tag |-> "ERROR", idx |-> idx, total |-> total, detail |-> CallRaises(r)])

\* Lines 222-228: the line printed for the result r of the submit call.
OutcomeLine(idx, total, nm, ans, r) ==
  LET exc == CallRaises(r) IN
  IF exc = NoExc
  THEN Out([tag |-> "ok", idx |-> idx, total |-> total, name |-> nm,
            preview |-> AnswerPreview(ans)])
  ELSE IF Handler(SubmitExcept, exc) = "HTTPStatusError"
  THEN Out([tag |-> "FAILED", idx |-> idx, total |-> total, status |-> r.status])
  ELSE Out([tag |-> "ERROR", idx |-> idx, total |-> total, detail |-> exc])

\* Variant: the last-iteration test left out.
PacingDue_EveryIteration(d, idx, count) == d # 0

\* Variant: the last-iteration test off by one.
PacingDue_OffByOne(d, idx, count) == d # 0 /\ idx < count - 2

\* Line 230: delay and i < args.count - 1
PacingDue(d, idx, count) == d # 0 /\ idx < count - 1

\* Lines 222-230 with submit_response (132-140): one submit call, taking lat
\* units of time, and the report of its outcome.
Submit(r, lat) ==
  /\ pc = "submit"
  /\ clock' = clock + lat
  /\ LET call == [ev |-> "http", op |-> "submit",
                  url |-> base_url \o "/api/sessions/" \o session_id \o "/responses",
                  idx |-> i + 1, student_name |-> name, answer |-> answer,
                  start |-> clock, result |-> r]
         exc == CallRaises(r)
     IN IF exc = NoExc \/ Handled(SubmitExcept, exc)
        THEN /\ trace' = trace \o <<call, OutcomeLine(i + 1, args.count, name, answer, r)>>
             /\ IF PacingDue(delay, i, args.count)
                THEN pc' = "sleep" /\ i' = i
                ELSE pc' = "for" /\ i' = i + 1
             /\ UNCHANGED exit_status
        ELSE /\ Crash(<<call>>, exc)
             /\ i' = i
  /\ UNCHANGED <<args, base_url, frontend_url, delay, session_id, question,
                 admin_url, used_names, name, answer>>

\* time.sleep(secs) raises ValueError for a negative length.
SleepRaises(secs) == IF secs < 0 THEN "ValueError" ELSE NoExc

\* Line 231: time.sleep(delay), outside the try block.
Sleep ==
  /\ pc = "sleep"
  /\ IF SleepRaises(delay) # NoExc
     THEN /\ Crash(<<>>, SleepRaises(delay))
          /\ UNCHANGED <<i, clock>>
     ELSE /\ trace' = Append(trace, [ev |-> "sleep", after |-> i + 1, secs |-> delay])
          /\ clock' = clock + delay
          /\ i' = i + 1
          /\ pc' = "for"
          /\ UNCHANGED exit_status
  /\ UNCHANGED <<args, base_url, frontend_url, delay, session_id, question,
                 admin_url, used_names, name, answer>>

\* Line 237: the templated placeholder.
PlaceholderLink(frontend, sid) ==
  frontend \o "/session/" \o sid \o "/admin?token=<your-admin-token>"

\* Lines 234-237: the link of the final summary.
SummaryLink(url, frontend, sid) ==
  IF Truthy(url) THEN url ELSE PlaceholderLink(frontend, sid)

\* Lines 233-237: the final summary; main returns.
Summary ==
  /\ pc = "summary"
  /\ trace' = Append(trace, Out([tag |-> "summary",
                                 link |-> SummaryLink(admin_url, frontend_url, session_id)]))
  /\ pc' = "done"
  /\ exit_status' = "0"
  /\ UNCHANGED <<args, base_url, frontend_url, delay, session_id, question,
                 admin_url, used_names, i, name, answer, clock>>

Next ==
  \/ Start
  \/ \E r \in LookupResults : Lookup(r)
  \/ \E r \in CreateResults : Create(r)
  \/ \E f \in FirstDraws, l \in LastDraws : ForBody(f, l)
  \/ ForExit
  \/ \E f \in FirstDraws, l \in LastDraws : Redraw(f, l)
  \/ \E s \in StarterDraws, b \in BodyDraws, c \in CloserDraws, u \in URands,
        r \in RefDraws : Accept(s, b, c, u, r)
  \/ \E r \in SubmitResults, lat \in Latencies : Submit(r, lat)
  \/ Sleep
  \/ Summary

Spec == Init /\ [][Next]_vars

(* ---------------------------------------------------------------------- *)
(* main under an external interrupt (SIGINT): Python raises               *)
(* KeyboardInterrupt in the statement that is running.                    *)
(* ---------------------------------------------------------------------- *)

\* KeyboardInterrupt leaves main: traceback, the process dies of SIGINT.
Interrupted(events) ==
  /\ trace' = trace \o events \o <<Traceback("KeyboardInterrupt")>>
  /\ pc' = "interrupted"
  /\ exit_status' = "SIGINT"

\* The interrupt arrives outside the try block of lines 222-228: during
\* argument handling, session resolution (the clause of line 201 names
\* HTTPStatusError only), identity generation, the pacing sleep, the summary.
Interrupt ==
  /\ pc \in {"start", "resolve", "for", "while", "sleep", "summary"}
  /\ Interrupted(<<[ev |-> "interrupt", at |-> pc, idx |-> i + 1]>>)
  /\ UNCHANGED <<args, base_url, frontend_url, delay, session_id, question,
                 admin_url, used_names, i, name, answer, clock>>

\* The interrupt arrives while submit_response runs, inside the try block:
\* the clauses of lines 225 and 227 are tried.
InterruptSubmit ==
  /\ pc = "submit"
  /\ LET exc == "KeyboardInterrupt"
         arrival == [ev |-> "interrupt", at |-> "submit", idx |-> i + 1]
     IN IF Handled(SubmitExcept, exc)
        THEN /\ trace' = trace \o <<arrival,
                                    Out([tag |-> "ERROR", idx |-> i + 1,
                                         total |-> args.count, detail |-> exc])>>
             /\ IF PacingDue(delay, i, args.count)
                THEN pc' = "sleep" /\ i' = i
                ELSE pc' = "for" /\ i' = i + 1
             /\ UNCHANGED exit_status
        ELSE /\ Interrupted(<<arrival>>)
             /\ i' = i
  /\ UNCHANGED <<args, base_url, frontend_url, delay, session_id, question,
                 admin_url, used_names, name, answer, clock>>

NextInterrupt ==
  \/ Next
  \/ Interrupt
  \/ InterruptSubmit

SpecInterrupt == Init /\ [][NextInterrupt]_vars

(* ---------------------------------------------------------------------- *)
(* random_answer on its own: every question and every draw                *)
(* ---------------------------------------------------------------------- *)

AnswerQuestions == {"", "Takeaway?"}
AllURands == {0, 29, 30, 99}

InitAnswer ==
  /\ args = [question |-> ""]
  /\ pc = "answer"
  /\ question \in AnswerQuestions
  /\ base_url = None
  /\ frontend_url = None
  /\ delay = 0
  /\ session_id = None
  /\ admin_url = None
  /\ used_names = {}
  /\ i = 0
  /\ name = None
  /\ answer = None
  /\ trace = <<>>
  /\ clock = 0
  /\ exit_status = None

\* One call of random_answer(question), lines 100-113, the draws recorded.
Synthesize(s, b, c, u, r) ==
  /\ pc = "answer"
  /\ answer' = random_answer(question, s, b, c, u, r)
  /\ trace' = <<[ev |-> "draw", s |-> s, b |-> b, c |-> c, u |-> u, r |-> r]>>
  /\ pc' = "answered"
  /\ UNCHANGED <<args, base_url, frontend_url, delay, session_id, question,
                 admin_url, used_names, i, name, clock, exit_status>>

NextAnswer ==
  /\ pc = "answer"
  /\ \E s \in 1..Len(ANSWER_STARTERS), b \in 1..Len(ANSWER_BODIES),
        c \in 1..Len(ANSWER_CLOSERS), u \in AllURands, r \in 1..Len(refs) :
          Synthesize(s, b, c, u, r)

SpecAnswer == InitAnswer /\ [][NextAnswer]_vars

(* ---------------------------------------------------------------------- *)
(* Reading the trace of a run                                             *)
(* ---------------------------------------------------------------------- *)

IsSubmit(e) == e.ev = "http" /\ e.op = "submit"
IsLookup(e) == e.ev = "http" /\ e.op = "lookup"
IsCreate(e) == e.ev = "http" /\ e.op = "create"
IsOutcome(e) == e.ev = "print" /\ e.tag \in {"ok", "FAILED", "ERROR"}
IsSleep(e) == e.ev = "sleep"
IsSummary(e) == e.ev = "print" /\ e.tag = "summary"
IsTraceback(e) == e.ev = "traceback"

SubmitCalls == SelectSeq(trace, IsSubmit)
Sleeps == SelectSeq(trace, IsSleep)
Summaries == SelectSeq(trace, IsSummary)

Max(a, b) == IF a >= b THEN a ELSE b

Failed(r) == r.kind = "transport" \/ ~IsSuccess(r.status) \/ ~r.json

PacingEnabled == args.delay > 0 /\ ~args.no_delay

(* ---------------------------------------------------------------------- *)
(* Properties                                                             *)
(* ---------------------------------------------------------------------- *)

\* C1: in a run whose count is within the capacity of the name pool, the
\* display names passed to the submit calls are pairwise distinct, whatever
\* the draws and whatever the submissions' results; every submitted name,
\* also one whose submission failed, is in used_names.
C1_DistinctNames ==
  args.count <= Capacity =>
    /\ \A a, b \in 1..Len(SubmitCalls) :
         a # b => SubmitCalls[a].student_name # SubmitCalls[b].student_name
    /\ \A a \in 1..Len(SubmitCalls) : SubmitCalls[a].student_name \in used_names

C1_Witness ==
  /\ pc = "done"
  /\ args.count = Capacity
  /\ Len(SubmitCalls) = Capacity
  /\ SubmitCalls[1].result.kind = "transport"
  /\ SubmitCalls[1].student_name \in used_names

\* C2: on the reuse path a 404 answer to the lookup ends the run with exit
\* status 1, with no submit call, no pacing sleep and no final summary.
C2_NotFoundFatal ==
  (\E k \in 1..Len(trace) :
      /\ IsLookup(trace[k])
      /\ trace[k].result.kind = "response"
      /\ trace[k].result.status = 404)
  => /\ pc = "exit"
     /\ exit_status = "1"
     /\ trace[Len(trace)].ev = "print"
     /\ trace[Len(trace)].tag = "notfound"
     /\ Len(SubmitCalls) = 0
     /\ Len(Sleeps) = 0
     /\ Len(Summaries) = 0

C2_Witness ==
  /\ pc = "exit"
  /\ args.count > 0
  /\ \E k \in 1..Len(trace) :
       /\ IsLookup(trace[k])
       /\ trace[k].result.kind = "response"
       /\ trace[k].result.status = 404

OutcomeOf(k) == trace[k + 1]

\* C4 as stated: one outcome line per submit call, in index order, a success
\* line iff the call returned 2xx, a FAILED line with the status code iff it
\* returned non-2xx, an ERROR line iff it failed in transport.
C4_OutcomeByStatus ==
  \A k \in 1..Len(trace) :
    IsSubmit(trace[k]) =>
      /\ k < Len(trace)
      /\ IsOutcome(OutcomeOf(k))
      /\ OutcomeOf(k).idx = trace[k].idx
      /\ LET r == trace[k].result
             o == OutcomeOf(k)
         IN /\ o.tag = "ok" <=> (r.kind = "response" /\ IsSuccess(r.status))
            /\ o.tag = "FAILED" <=> (r.kind = "response" /\ ~IsSuccess(r.status))
            /\ o.tag = "ERROR" <=> r.kind = "transport"

\* C4 (amended): one outcome line per submit call, in index order. It is a
\* success line, with the submitted name and the first 50 characters of the
\* submitted answer, iff the call returned 2xx with a body that decodes as
\* JSON; a FAILED line carrying the status code iff the call returned
\* non-2xx; an ERROR line iff the call failed in transport or returned 2xx
\* with a body that is not JSON.
C4_OutcomeByResult ==
  /\ \A k \in 1..Len(trace) :
       IsSubmit(trace[k]) =>
         /\ k < Len(trace)
         /\ IsOutcome(OutcomeOf(k))
         /\ OutcomeOf(k).idx = trace[k].idx
         /\ OutcomeOf(k).total = args.count
         /\ LET r == trace[k].result
                o == OutcomeOf(k)
            IN /\ o.tag = "ok" <=>
                    (r.kind = "response" /\ IsSuccess(r.status) /\ r.json)
               /\ o.tag = "FAILED" <=>
                    (r.kind = "response" /\ ~IsSuccess(r.status))
               /\ o.tag = "ERROR" <=>
                    (r.kind = "transport"
                       \/ (r.kind = "response" /\ IsSuccess(r.status) /\ ~r.json))
               /\ o.tag = "ok" =>
                    /\ o.name = trace[k].student_name
                    /\ o.preview = SubSeq(trace[k].answer, 1, 50) \o "..."
               /\ o.tag = "FAILED" => o.status = r.status
  /\ \A k \in 1..Len(trace) :
       IsOutcome(trace[k]) => k > 1 /\ IsSubmit(trace[k - 1])
  /\ \A n \in 1..Len(SubmitCalls) : SubmitCalls[n].idx = n

C4_Witness ==
  /\ pc = "done"
  /\ Len(SubmitCalls) = 2
  /\ SubmitCalls[1].result.kind = "response"
  /\ SubmitCalls[1].result.status = 204
  /\ SubmitCalls[2].result.kind = "response"
  /\ SubmitCalls[2].result.status = 500
  /\ \E k \in 1..Len(trace) : IsOutcome(trace[k]) /\ trace[k].tag = "ERROR"
  /\ \E k \in 1..Len(trace) :
       IsOutcome(trace[k]) /\ trace[k].tag = "FAILED" /\ trace[k].status = 500

\* C5: with pacing enabled (delay d > 0, noDelay false) every sleep has
\* length d and comes right after the outcome line of an iteration i < count,
\* failed or not; the sleeps follow iterations 1, 2, ... one each; every
\* submit call n > 1 has the sleep of iteration n-1 between the outcome of
\* n-1 and itself; there is none after the final iteration: a run that
\* reaches the summary has slept exactly max(count-1, 0) times.
C5_SleepsBetweenIterations ==
  PacingEnabled =>
    /\ \A n \in 1..Len(Sleeps) :
         /\ Sleeps[n].after = n
         /\ Sleeps[n].secs = args.delay
         /\ n < args.count
    /\ \A k \in 1..Len(trace) :
         IsSleep(trace[k]) =>
           /\ k > 1
           /\ IsOutcome(trace[k - 1])
           /\ trace[k - 1].idx = trace[k].after
    /\ \A k \in 1..Len(trace) :
         (IsSubmit(trace[k]) /\ trace[k].idx > 1) =>
           \E j \in 1..(k - 1) :
             /\ IsSleep(trace[j])
             /\ trace[j].after = trace[k].idx - 1
             /\ \A m \in (j + 1)..(k - 1) : ~IsSubmit(trace[m]) /\ ~IsOutcome(trace[m])
    /\ pc \in {"summary", "done"} => Len(Sleeps) = Max(args.count - 1, 0)

C5_Witness ==
  /\ PacingEnabled
  /\ pc = "done"
  /\ args.count = 2
  /\ Len(Sleeps) = 1
  /\ SubmitCalls[1].result.kind = "response"
  /\ SubmitCalls[1].result.status = 500
  /\ IsSummary(trace[Len(trace)])
  /\ IsOutcome(trace[Len(trace) - 1])

\* C6: with pacing enabled, on a clock that a sleep advances by its length
\* and a submit call by a non-negative amount, submit call n starts at least
\* (n-1) x d after submit call 1 started.
C6_PacedStarts ==
  PacingEnabled =>
    \A n \in 1..Len(SubmitCalls) :
      SubmitCalls[n].start - SubmitCalls[1].start >= (n - 1) * args.delay

C6_Witness ==
  /\ PacingEnabled
  /\ Len(SubmitCalls) = 2
  /\ Failed(SubmitCalls[1].result)
  /\ SubmitCalls[2].start - SubmitCalls[1].start > args.delay

\* C7: with noDelay set the run never sleeps, whatever delay is configured:
\* no sleep is performed, none is pending, and no sleep length is rejected.
C7_NoDelayNeverSleeps ==
  args.no_delay =>
    /\ Len(Sleeps) = 0
    /\ pc # "sleep"
    /\ \A k \in 1..Len(trace) : IsTraceback(trace[k]) => trace[k].exc # "ValueError"

C7_Witness ==
  /\ args.no_delay
  /\ args.delay = 2
  /\ pc = "done"
  /\ Len(SubmitCalls) = 2
  /\ Len(Sleeps) = 0

\* The configured frontendUrl or, when none is configured, baseUrl, trailing
\* slashes stripped: the values for the inputs of the model, written out.
ExpectedFrontend ==
  CASE args.frontend_url = "http://web//" -> "http://web"
    [] args.frontend_url = "/" -> ""
    [] OTHER -> "http://api"

ExpectedAdminLink(sid, token) ==
  ExpectedFrontend \o "/session/" \o sid \o "/admin?token=" \o token

\* The create call answered with a session id and a non-empty admin token.
CreatedWithToken ==
  /\ Len(trace) > 0
  /\ IsCreate(trace[1])
  /\ trace[1].result.kind = "response"
  /\ IsSuccess(trace[1].result.status)
  /\ trace[1].result.json
  /\ "admin_token" \in DOMAIN trace[1].result.data
  /\ trace[1].result.data.admin_token # ""

CreatedLinkLines ==
  SelectSeq(trace, LAMBDA e : e.ev = "print" /\ e.tag = "admin_url")

\* C8 as stated: the admin link of the summary is exactly
\* {frontendUrl}/session/{s}/admin?token={t}, and the same link is shown when
\* the session is created.
C8_SameLinkAtCreation ==
  CreatedWithToken =>
    LET d == trace[1].result.data IN
    /\ \A n \in 1..Len(Summaries) :
         Summaries[n].link = ExpectedAdminLink(d.session_id, d.admin_token)
    /\ \A n \in 1..Len(CreatedLinkLines) :
         CreatedLinkLines[n].link = ExpectedAdminLink(d.session_id, d.admin_token)

\* C8 (amended): the admin link of the summary is exactly
\* {frontendUrl}/session/{s}/admin?token={t}; the same link is shown when the
\* session is created if the stripped frontendUrl is not empty, and the
\* adminUrl of the create response is shown instead if it is empty.
C8_AdminLink ==
  CreatedWithToken =>
    LET d == trace[1].result.data IN
    /\ \A n \in 1..Len(Summaries) :
         Summaries[n].link = ExpectedAdminLink(d.session_id, d.admin_token)
    /\ \A n \in 1..Len(CreatedLinkLines) :
         CreatedLinkLines[n].link =
           IF ExpectedFrontend # ""
           THEN ExpectedAdminLink(d.session_id, d.admin_token)
           ELSE d.admin_url
    /\ pc \notin {"start", "resolve"} => Len(CreatedLinkLines) = 1
    /\ pc = "done" => Len(Summaries) = 1

C8_Witness ==
  /\ CreatedWithToken
  /\ pc = "done"
  /\ args.frontend_url = "http://web//"
  /\ Summaries[1].link = "http://web/session/new1/admin?token=tok"
  /\ CreatedLinkLines[1].link = "http://web/session/new1/admin?token=tok"

\* The create call succeeded and its response has no adminToken.
CreatedWithoutToken ==
  /\ Len(trace) > 0
  /\ IsCreate(trace[1])
  /\ trace[1].result.kind = "response"
  /\ IsSuccess(trace[1].result.status)
  /\ trace[1].result.json
  /\ "admin_token" \notin DOMAIN trace[1].result.data

\* C9: when the create call succeeds and its response has no adminToken,
\* resolution still succeeds: the run is not stopped, and its summary shows
\* the placeholder link.
C9_AbsentTokenTolerated ==
  CreatedWithoutToken =>
    /\ pc \notin {"crashed", "exit"}
    /\ \A n \in 1..Len(Summaries) :
         Summaries[n].link =
           ExpectedFrontend \o "/session/" \o trace[1].result.data.session_id
             \o "/admin?token=<your-admin-token>"

\* The draws of the one call of random_answer under SpecAnswer.
Drawn == trace[1]

\* What follows the starter in the composed text: the drawn body, and the
\* drawn closer unless it is empty, each after one space.
AfterStarter(b, c) ==
  " " \o ANSWER_BODIES[b] \o
    (IF ANSWER_CLOSERS[c] = "" THEN "" ELSE " " \o ANSWER_CLOSERS[c])

\* C10: for every question and every draw the synthesized text is not empty
\* and contains the drawn body fragment unchanged: it is the starter, the
\* body and the non-empty closer joined by single spaces, or one of the
\* three prefixes followed by that text with only the first character of the
\* starter lower-cased.
C10_AnswerHasBody ==
  pc = "answered" =>
    LET st == ANSWER_STARTERS[Drawn.s]
        rest == AfterStarter(Drawn.b, Drawn.c)
    IN /\ answer # ""
       /\ Len(answer) > 0
       /\ Contains(answer, ANSWER_BODIES[Drawn.b])
       /\ \/ answer = st \o rest
          \/ \E r \in 1..Len(refs) :
               answer = refs[r] \o Lower(CharAt(st, 1)) \o Suffix(st, 1) \o rest

C10_Witness ==
  /\ pc = "answered"
  /\ question # ""
  /\ Drawn.s = 3
  /\ Drawn.b = 8
  /\ Drawn.c = 5
  /\ answer = "For this question, from what I've learned, context matters a lot-what works in one situation may not in another."

\* random_answer("") with a closer: no prefix, three parts.
C10_WitnessEmptyQuestion ==
  /\ pc = "answered"
  /\ question = ""
  /\ answer = "I believe simplicity often beats complexity when possible. That's my take on it."

\* The answer starts with one of the three referential prefixes.
HasRefPrefix(a) == \E r \in 1..Len(refs) : StartsWith(a, refs[r])

\* C11: with an empty question no synthesized answer starts with a
\* referential prefix, whatever the draws; an answer that starts with one
\* comes from a non-empty question and is that prefix followed by the
\* composed text (starter, body, non-empty closer, single spaces) with its
\* first character lower-cased.
C11_PrefixOnlyWithQuestion ==
  pc = "answered" =>
    /\ question = "" => ~HasRefPrefix(answer)
    /\ HasRefPrefix(answer) =>
         /\ question # ""
         /\ LET st == ANSWER_STARTERS[Drawn.s]
                composed == st \o AfterStarter(Drawn.b, Drawn.c)
            IN answer = refs[Drawn.r] \o Lower(CharAt(composed, 1)) \o Suffix(composed, 1)

C11_Witness ==
  /\ pc = "answered"
  /\ question = ""
  /\ Drawn.u = 0
  /\ Drawn.r = 2
  /\ answer = "Personally, I feel we need to be mindful of unintended consequences."

\* The prefix branch with a question: the second prefix, first letter lowered.
C11_WitnessPrefixed ==
  /\ pc = "answered"
  /\ question # ""
  /\ answer = "On this topic, i believe feedback and iteration lead to better outcomes. Hope this adds to the discussion."

\* The resolution call of the run: the first event of the trace.
Resolved == Len(trace) > 0 /\ (IsLookup(trace[1]) \/ IsCreate(trace[1]))

\* The resolution call returned 2xx with a JSON body.
ResolutionSucceeded ==
  /\ Resolved
  /\ trace[1].result.kind = "response"
  /\ trace[1].result.status \in 200..299
  /\ trace[1].result.json

\* The resolution call failed otherwise than by a 404 answer to the lookup:
\* a transport failure, a non-2xx answer to create, a non-404 non-2xx answer
\* to the lookup.
ResolutionFailedNot404 ==
  /\ Resolved
  /\ \/ trace[1].result.kind = "transport"
     \/ /\ trace[1].result.kind = "response"
        /\ trace[1].result.status \notin 200..299
        /\ ~(IsLookup(trace[1]) /\ trace[1].result.status = 404)

SubmittingLines == SelectSeq(trace, LAMBDA e : e.ev = "print" /\ e.tag = "submitting")

\* C12: a resolution failure other than a 404 lookup is fatal: the run has
\* ended with exit status 1, the loop was not entered, no submit call was
\* made and no summary printed.
C12_ResolutionFailureFatal ==
  ResolutionFailedNot404 =>
    /\ pc \in {"exit", "crashed"}
    /\ exit_status = "1"
    /\ Len(SubmittingLines) = 0
    /\ Len(SubmitCalls) = 0
    /\ Len(Sleeps) = 0
    /\ Len(Summaries) = 0

C12_Witness ==
  /\ ResolutionFailedNot404
  /\ IsCreate(trace[1])
  /\ trace[1].result.kind = "response"
  /\ trace[1].result.status = 500
  /\ args.count > 0
  /\ pc = "crashed"

\* The same for the lookup: a transport failure is not caught at all.
C12_WitnessLookupTransport ==
  /\ ResolutionFailedNot404
  /\ IsLookup(trace[1])
  /\ trace[1].result.kind = "transport"
  /\ IsTraceback(trace[Len(trace)])

\* The run has ended: no statement of main is left to execute.
Ended == pc \in {"done", "exit", "crashed"}

\* C13: once the loop has been entered (resolution succeeded) with a count
\* within the pool capacity, the run never ends without the final summary,
\* whatever the delay and whatever the per-item failures.
C13_OnlyResolutionStops ==
  (Len(SubmittingLines) > 0 /\ args.count <= Capacity) =>
    (Ended => Len(Summaries) = 1 /\ IsSummary(trace[Len(trace)]))

IsResolution(e) == IsLookup(e) \/ IsCreate(e)
ResolutionCalls == SelectSeq(trace, IsResolution)

\* C14: one resolution call per run, never retried: it is the first event of
\* the run, a lookup iff a session id is configured (line 192), and every
\* submit call comes after it and only if it returned 2xx with a body.
C14_OneResolutionCall ==
  /\ Len(ResolutionCalls) <= 1
  /\ pc \notin {"start", "resolve"} => Len(ResolutionCalls) = 1
  /\ Len(trace) > 0 =>
       /\ IsResolution(trace[1])
       /\ IsLookup(trace[1]) <=> Truthy(args.session_id)
       /\ IsCreate(trace[1]) <=> ~Truthy(args.session_id)
  /\ \A k \in 1..Len(trace) : IsSubmit(trace[k]) => (k > 1 /\ ResolutionSucceeded)

C14_Witness ==
  /\ pc = "done"
  /\ IsLookup(trace[1])
  /\ Len(ResolutionCalls) = 1
  /\ Len(SubmitCalls) = 2

\* The create path, ended by a failed resolution: still one call, no retry.
C14_WitnessCreateFailed ==
  /\ pc = "crashed"
  /\ Len(ResolutionCalls) = 1
  /\ IsCreate(trace[1])
  /\ trace[1].result.kind = "transport"

IsSynth(e) == e.ev = "synth"

\* The session id the run resolved: the configured one on the reuse path,
\* the one the create call returned otherwise.
ResolvedSessionId ==
  IF IsLookup(trace[1]) THEN args.session_id ELSE trace[1].result.data.session_id

\* The question the run resolved: the lookup's (empty when the body has
\* none) on the reuse path, the configured one on the create path.
ResolvedQuestion ==
  IF IsLookup(trace[1])
  THEN IF "question" \in DOMAIN trace[1].result.data
       THEN trace[1].result.data.question ELSE ""
  ELSE args.question

\* C15: the loop never changes the resolved session: every submit call
\* targets the resolved session id and every synthesis uses the resolved
\* question, which on the reuse path is the lookup's and not the configured.
C15_SessionUnchanged ==
  Len(SubmittingLines) > 0 =>
    /\ session_id = ResolvedSessionId
    /\ question = ResolvedQuestion
    /\ \A k \in 1..Len(trace) :
         /\ IsSubmit(trace[k]) =>
              trace[k].url = "http://api/api/sessions/" \o ResolvedSessionId \o "/responses"
         /\ IsSynth(trace[k]) => trace[k].question = ResolvedQuestion

C15_Witness ==
  /\ pc = "done"
  /\ IsLookup(trace[1])
  /\ args.question = "Takeaway?"
  /\ ResolvedQuestion = "Stored?"
  /\ Len(SubmitCalls) = 2
  /\ Len(SelectSeq(trace, IsSynth)) = 2

\* Reuse path, lookup body without a question: the empty question is used.
C15_WitnessNoQuestion ==
  /\ ResolutionSucceeded
  /\ IsLookup(trace[1])
  /\ "question" \notin DOMAIN trace[1].result.data
  /\ args.question = "Takeaway?"
  /\ Len(SelectSeq(trace, IsSynth)) > 0
  /\ question = ""

\* Create path: the configured question is used.
C15_WitnessCreate ==
  /\ Resolved
  /\ IsCreate(trace[1])
  /\ args.question = "Takeaway?"
  /\ Len(SubmitCalls) = 2
  /\ question = "Takeaway?"

NotFoundLines == SelectSeq(trace, LAMBDA e : e.ev = "print" /\ e.tag = "notfound")

\* C16: on the reuse path the session-not-found report is printed only for
\* a 404 answer to the lookup; another non-2xx answer is not reported so.
C16_NotFoundOnly404 ==
  Len(NotFoundLines) > 0 =>
    /\ IsLookup(trace[1])
    /\ trace[1].result.kind = "response"
    /\ trace[1].result.status = 404

\* Every name the draws of a run can produce.
AllNames == {random_student_name(f, l) : f \in FirstDraws, l \in LastDraws}

\* Within the pool capacity the redraw loop can always leave: some pair is
\* still unused whenever the loop condition of line 217 is evaluated.
RedrawCanExit ==
  (pc = "while" /\ args.count <= Capacity) =>
    \E n \in AllNames : ~NameTaken(n, used_names)

\* C17: for a count within the pool capacity, a run that entered the loop
\* goes on until the final summary: it never stops (no statement left to
\* execute) anywhere but after the summary.
C17_ReachesSummary ==
  (Len(SubmittingLines) > 0 /\ args.count <= Capacity) =>
    (pc = "done" \/ ENABLED Next)

\* Beyond the pool capacity: at most capacity submit calls, with distinct
\* names, and the summary is never reached.
OverCapacityNoSummary ==
  args.count > Capacity =>
    /\ Len(SubmitCalls) <= Capacity
    /\ \A a, b \in 1..Len(SubmitCalls) :
         a # b => SubmitCalls[a].student_name # SubmitCalls[b].student_name
    /\ pc \notin {"summary", "done"}
    /\ Len(Summaries) = 0

\* Once every pair is used, the loop of lines 217-218 cannot leave: the
\* current name and every name a redraw can produce are used.
SpinsAtCapacity ==
  (pc = "while" /\ Cardinality(used_names) = Capacity) =>
    /\ NameTaken(name, used_names)
    /\ \A n \in AllNames : NameTaken(n, used_names)

\* C18: with a count beyond the pool capacity the run never stops: it makes
\* its capacity submit calls with distinct names and then stays in the
\* redraw loop; it ends neither with the summary nor with an error.
C18_SpinsForever ==
  (Len(SubmittingLines) > 0 /\ args.count > Capacity) =>
    /\ OverCapacityNoSummary
    /\ ~Ended
    /\ Len(SelectSeq(trace, IsTraceback)) = 0

IsInterrupt(e) == e.ev = "interrupt"
IsHttp(e) == e.ev = "http"

\* C19: an interrupt ends the run wherever it arrives: the only thing that
\* follows it is the traceback of KeyboardInterrupt (no outcome line, no
\* submit call, no other call), the run has stopped without the summary's
\* exit status, and no call but lookup, create and submit is ever issued.
C19_InterruptEndsRun ==
  /\ \A k \in 1..Len(trace) :
       IsInterrupt(trace[k]) =>
         /\ k = Len(trace) - 1
         /\ IsTraceback(trace[Len(trace)])
         /\ trace[Len(trace)].exc = "KeyboardInterrupt"
         /\ pc = "interrupted"
  /\ pc = "interrupted" =>
       /\ ~ENABLED NextInterrupt
       /\ exit_status = "SIGINT"
       /\ IsInterrupt(trace[Len(trace) - 1])
  /\ \A k \in 1..Len(trace) :
       IsHttp(trace[k]) => trace[k].op \in {"lookup", "create", "submit"}

\* Interrupted during the second submit call, after one accepted response.
C19_Witness ==
  /\ pc = "interrupted"
  /\ Len(SubmitCalls) = 1
  /\ SubmitCalls[1].result.kind = "response"
  /\ SubmitCalls[1].result.status = 201
  /\ trace[Len(trace) - 1].at = "submit"
  /\ trace[Len(trace) - 1].idx = 2

C19_WitnessSleep == pc = "interrupted" /\ trace[Len(trace) - 1].at = "sleep"

C19_WitnessResolve == pc = "interrupted" /\ trace[Len(trace) - 1].at = "resolve"

C19_WitnessRedraw ==
  /\ pc = "interrupted"
  /\ trace[Len(trace) - 1].at = "while"
  /\ NameTaken(name, used_names)

====
